---- MODULE Spec2Model ----
(***************************************************************************)
(* Date pairing: MatchMaker builds a 0/1 program over candidate pairs of   *)
(* participants (src/matchmaker.py), hands it to the solver and reports    *)
(* the selected pairs.  Scores are kept as integers in tenths, so that the *)
(* 0.1 penalty weight of the source is exact.                              *)
(***************************************************************************)
EXTENDS Integers, Sequences, FiniteSets, TLC

VARIABLES pc, rows, similarity, preferred, pairable,
          persons, possible_matches, variables, prob,
          status, exception, scores, num_matches, not_matched,
          day_dict, unmatched

vars == <<pc, rows, similarity, preferred, pairable,
          persons, possible_matches, variables, prob,
          status, exception, scores, num_matches, not_matched,
          day_dict, unmatched>>

\* ---------------------------------------------------------------- bounds
MaxPersons == 3
MaxSim == 1
MaxDeviations == 2
MaxReportPersons == 4

\* ------------------------------------------------------------- constants
\* score = reward - (0.1 * penalty): scores are carried multiplied by 10
ScoreScale == 10

\* ---------------------------------------------------------------- helpers
Range(s) == {s[k] : k \in 1..Len(s)}

RECURSIVE SeqSum(_)
SeqSum(s) == IF s = <<>> THEN 0 ELSE Head(s) + SeqSum(Tail(s))

\* Python's range(n) as a list
PyRange(n) == [k \in 1..n |-> k - 1]

\* [f(x) for x in s]
Prepend(x, ss) == [k \in 1..Len(ss) |-> <<x>> \o ss[k]]

\* itertools.combinations(items, k), in the order Python yields them
RECURSIVE combination(_, _)
combination(items, k) ==
    IF k = 0 THEN << <<>> >>
    ELSE IF Len(items) < k THEN <<>>
    ELSE Prepend(Head(items), combination(Tail(items), k - 1))
         \o combination(Tail(items), k)

\* pulp.allcombinations(orgset, k): all combinations with up to k items
RECURSIVE allcombinations(_, _)
allcombinations(orgset, k) ==
    IF k = 0 THEN <<>>
    ELSE allcombinations(orgset, k - 1) \o combination(orgset, k)

\* the candidate pairs a roster of n participants can be asked about
Pairs(n) == {<<i, j>> : i \in 0..(n - 1), j \in 0..(n - 1)} \cap
            {p \in (0..(n - 1)) \X (0..(n - 1)) : p[1] <= p[2]}

\* --------------------------------------------------------- participants
EITHER == "Either"
Days == {"Either", "Friday", "Saturday"}

\* Person.build(row): the participant keeps its roster position as identity
PersonBuild(index, row) == [index |-> index, day_choice |-> row.day_choice]

matrix_similarity(p1, p2) == similarity[<<p1.index, p2.index>>]
is_pairing_preferred(p1, p2) == preferred[<<p1.index, p2.index>>]
is_pairable(p1, p2) == pairable[<<p1.index, p2.index>>]

\* ---------------------------------------------------------- MatchTracker
\* possible_matches built from combinations with replacement, which already
\* hold the self-pairs that the second statement appends
PossibleMatchesWithReplacement(n) ==
    SelectSeq([k \in 1..(n * n) |-> <<(k - 1) \div n, (k - 1) % n>>],
              LAMBDA c : c[1] <= c[2])
    \o [k \in 1..n |-> <<k - 1, k - 1>>]

\* MatchTracker.__init__: possible_matches
PossibleMatches(n) ==
    SelectSeq(allcombinations(PyRange(n), 2), LAMBDA c : Cardinality(Range(c)) = 2)
    \o [k \in 1..n |-> <<k - 1, k - 1>>]

\* LpVariable.dicts("match", possible_matches, lowBound=0, upBound=1, cat=LpInteger)
\* varValue is <<>> while unassigned (None) and <<v>> once the solver set it
LpVariableDicts(keys) ==
    [pm \in Range(keys) |-> [lowBound |-> 0, upBound |-> 1, varValue |-> <<>>]]

\* idx in possible_match
TupleContains(t, idx) == \E k \in 1..Len(t) : t[k] = idx

\* get_variables_for_person that looks at the first member only
get_variables_for_first_member(pms, idx) ==
    SelectSeq(pms, LAMBDA pm : pm[1] = idx)

\* get_variables_for_person that lists a variable once per member equal to idx
get_variables_per_member(pms, idx) ==
    SelectSeq(pms, LAMBDA pm : pm[1] = idx) \o SelectSeq(pms, LAMBDA pm : pm[2] = idx)

\* MatchTracker.get_variables_for_person: the keys of the variables, in order
get_variables_for_person(pms, idx) ==
    SelectSeq(pms, LAMBDA pm : TupleContains(pm, idx))

\* MatchTracker.get_variables_to_people
get_variables_to_people(pms, ps) ==
    [k \in 1..Len(pms) |->
        [variable |-> pms[k], person1 |-> ps[pms[k][1] + 1], person2 |-> ps[pms[k][2] + 1]]]

\* MatchTracker.get_true_possible_matches
get_true_possible_matches(pms, vs) ==
    SelectSeq(pms, LAMBDA pm : vs[pm].varValue # <<>> /\ vs[pm].varValue[1] > 0)

\* MatchTracker.get_matches
get_matches(pms, vs, ps) ==
    LET t == get_true_possible_matches(pms, vs)
    IN  [k \in 1..Len(t) |-> <<ps[t[k][1] + 1], ps[t[k][2] + 1]>>]

\* ------------------------------------------------------------ MatchMaker
\* score with the penalty added instead of subtracted
ScorePenaltyAdded(person1, person2) ==
    LET reward == matrix_similarity(person1, person2)
        penalty == 1 - is_pairing_preferred(person1, person2)
    IN  ScoreScale * reward + penalty

\* score = reward - (0.1 * penalty), in tenths
Score(person1, person2) ==
    LET reward == matrix_similarity(person1, person2)
        penalty == 1 - is_pairing_preferred(person1, person2)
    IN  ScoreScale * reward - penalty

\* the objective: lpSum of variable * score over get_variables_to_people
Objective(pms, ps) ==
    LET vp == get_variables_to_people(pms, ps)
    IN  [k \in 1..Len(vp) |->
            [variable |-> vp[k].variable, coef |-> Score(vp[k].person1, vp[k].person2)]]

\* coverage written as lpSum(variables_for_person) <= 1
CoverageAtMostOne(pms, ps) ==
    [k \in 1..Len(ps) |->
        [sense |-> "<=", terms |-> get_variables_for_person(pms, k - 1), rhs |-> 1]]

\* for idx, _ in enumerate(persons): lpSum(variables_for_person) == 1
CoverageConstraints(pms, ps) ==
    [k \in 1..Len(ps) |->
        [sense |-> "==", terms |-> get_variables_for_person(pms, k - 1), rhs |-> 1]]

\* eligibility bounded by is_pairing_preferred instead of is_pairable
EligibilityByPreference(pms, ps) ==
    LET vp == get_variables_to_people(pms, ps)
    IN  [k \in 1..Len(vp) |->
            [sense |-> "<=", terms |-> <<vp[k].variable>>,
             rhs |-> is_pairing_preferred(vp[k].person1, vp[k].person2)]]

\* eligibility that skips the self-pairs
EligibilityOfRealPairs(pms, ps) ==
    LET vp == get_variables_to_people(pms, ps)
    IN  [k \in 1..Len(vp) |->
            [sense |-> "<=", terms |-> <<vp[k].variable>>,
             rhs |-> IF vp[k].person1 = vp[k].person2 THEN 1
                     ELSE is_pairable(vp[k].person1, vp[k].person2)]]

\* variable <= person1.is_pairable(person2)
EligibilityConstraints(pms, ps) ==
    LET vp == get_variables_to_people(pms, ps)
    IN  [k \in 1..Len(vp) |->
            [sense |-> "<=", terms |-> <<vp[k].variable>>,
             rhs |-> is_pairable(vp[k].person1, vp[k].person2)]]

\* MatchMaker._initialse_problem
initialse_problem(pms, ps) ==
    [objective |-> Objective(pms, ps),
     constraints |-> CoverageConstraints(pms, ps) \o EligibilityConstraints(pms, ps)]

\* ---------------------------------------------------------------- solver
\* The solver sees the variables as 0/1 integers; an assignment is the set of
\* the variables it sets to 1.
Lhs(c, sel) == Cardinality({t \in 1..Len(c.terms) : c.terms[t] \in sel})

Holds(c, sel) ==
    IF c.sense = "==" THEN Lhs(c, sel) = c.rhs ELSE Lhs(c, sel) <= c.rhs

\* a bound on one variable: variable <= rhs
SingleBound(c) == c.sense = "<=" /\ Len(c.terms) = 1

\* presolve: the variables a bound fixes at 0
FixedZero(p) ==
    {p.constraints[k].terms[1] :
        k \in {j \in 1..Len(p.constraints) :
                 SingleBound(p.constraints[j]) /\ p.constraints[j].rhs <= 0}}

\* presolve: a bound no 0/1 value satisfies
Impossible(p) ==
    \E k \in 1..Len(p.constraints) : SingleBound(p.constraints[k]) /\ p.constraints[k].rhs < 0

\* can the variables still undecided complete sel to an assignment that
\* satisfies every constraint of cs?  (all coefficients of the program are 1)
Viable(cs, undecided, sel) ==
    \A k \in 1..Len(cs) :
        /\ Lhs(cs[k], sel) <= cs[k].rhs
        /\ cs[k].sense = "==" => Lhs(cs[k], sel \cup undecided) >= cs[k].rhs

\* branch on one undecided variable at a time; the leaves are the assignments
\* that satisfy every constraint of cs
RECURSIVE Branch(_, _, _)
Branch(cs, undecided, sel) ==
    IF ~Viable(cs, undecided, sel) THEN {}
    ELSE IF undecided = {} THEN {sel}
    ELSE LET x == CHOOSE y \in undecided : TRUE
         IN  Branch(cs, undecided \ {x}, sel) \cup Branch(cs, undecided \ {x}, sel \cup {x})

\* the 0/1 assignments that satisfy every constraint of the program
FeasibleAssignments(p, vs) ==
    IF Impossible(p) THEN {}
    ELSE Branch(SelectSeq(p.constraints, LAMBDA c : ~SingleBound(c)),
                (DOMAIN vs) \ FixedZero(p), {})

\* value(prob.objective) under an assignment
ObjectiveValue(p, sel) ==
    SeqSum([k \in 1..Len(p.objective) |->
              IF p.objective[k].variable \in sel THEN p.objective[k].coef ELSE 0])

\* the assignments of feasible with the largest objective value
Optimal(p, feasible) ==
    UNION {{a \in feasible : \A b \in feasible : val[b] <= val[a]} :
             val \in {[a \in feasible |-> ObjectiveValue(p, a)]}}

\* prob.solve(solver=PULP_CBC_CMD(msg=False)): an optimal assignment when one
\* exists; otherwise the status is Infeasible and the values left in the
\* variables are whatever the solver stopped with.
SolverOutcomes(p, vs) ==
    UNION {IF feasible = {}
           THEN {[status |-> "Infeasible", sel |-> sel] : sel \in SUBSET (DOMAIN vs)}
           ELSE {[status |-> "Optimal", sel |-> sel] : sel \in Optimal(p, feasible)} :
             feasible \in {FeasibleAssignments(p, vs)}}

\* lp.assignVarsVals(values)
AssignVarsVals(vs, sel) ==
    [pm \in DOMAIN vs |-> [vs[pm] EXCEPT !.varValue = <<IF pm \in sel THEN 1 ELSE 0>>]]

\* ----------------------------------------------------------------- solve
\* num_matches counting one per selected pair of distinct persons
NumMatchesPerPair(matches) ==
    SeqSum([k \in 1..Len(matches) |-> IF matches[k][1] # matches[k][2] THEN 1 ELSE 0])

\* the loop of solve over get_matches: num_matches
NumMatches(matches) ==
    SeqSum([k \in 1..Len(matches) |-> IF matches[k][1] # matches[k][2] THEN 2 ELSE 0])

\* the loop of solve over get_matches: scores
Scores(matches) ==
    [k \in 1..Len(matches) |-> matrix_similarity(matches[k][1], matches[k][2])]

get_day_or_either(day1, day2) == IF day1 # EITHER THEN day1 ELSE day2

\* log_matches: the key of a selected real pair in day_dict
DayKey(ps, pm) ==
    get_day_or_either(ps[pm[1] + 1].day_choice, ps[pm[2] + 1].day_choice)

\* log_matches: unmatched
Unmatched(true_matches) ==
    LET selfs == SelectSeq(true_matches, LAMBDA pm : pm[1] = pm[2])
    IN  [k \in 1..Len(selfs) |-> selfs[k][1]]

\* log_matches: day_dict
DayDict(true_matches, ps) ==
    LET reals == SelectSeq(true_matches, LAMBDA pm : ~(pm[1] = pm[2]))
    IN  [d \in {DayKey(ps, reals[k]) : k \in 1..Len(reals)} |->
            SelectSeq(reals, LAMBDA pm : DayKey(ps, pm) = d)]

\* ------------------------------------------------------------------ inputs
DefaultSimilarity(n) == [p \in Pairs(n) |-> 0]
DefaultPreferred(n) == [p \in Pairs(n) |-> 1]
DefaultPairable(n) == [p \in Pairs(n) |-> 1]
DefaultRows(n) == [k \in 1..n |-> [day_choice |-> EITHER]]

\* the subsets of S with at most k elements
RECURSIVE SubsetsUpTo(_, _)
SubsetsUpTo(S, k) ==
    IF k = 0 THEN {{}}
    ELSE LET prev == SubsetsUpTo(S, k - 1)
         IN  prev \cup {d \cup {x} : d \in prev, x \in S}

\* one entry of a roster that differs from the default roster
Deviations(n) ==
    [kind : {"pairable", "preferred"}, pair : Pairs(n), val : {0}]
    \cup [kind : {"similarity"}, pair : Pairs(n), val : 1..MaxSim]

Functional(D) ==
    \A d1 \in D, d2 \in D : (d1.kind = d2.kind /\ d1.pair = d2.pair) => d1 = d2

Table(D, kind, n, default) ==
    [p \in Pairs(n) |->
        IF \E d \in D : d.kind = kind /\ d.pair = p
        THEN (CHOOSE d \in D : d.kind = kind /\ d.pair = p).val
        ELSE default]

Unbuilt ==
    /\ pc = "new"
    /\ persons = <<>>
    /\ possible_matches = <<>>
    /\ variables = <<>>
    /\ prob = [objective |-> <<>>, constraints |-> <<>>]
    /\ status = "Not Solved"
    /\ exception = "none"
    /\ scores = <<>>
    /\ num_matches = 0
    /\ not_matched = 0
    /\ day_dict = <<>>
    /\ unmatched = <<>>

\* every pairable table over a roster of default participants
Init ==
    /\ \E n \in 0..MaxPersons :
         /\ rows = DefaultRows(n)
         /\ similarity = DefaultSimilarity(n)
         /\ preferred = DefaultPreferred(n)
         /\ pairable \in [Pairs(n) -> {0, 1}]
    /\ Unbuilt

\* rosters that differ from the default one in at most MaxDeviations entries
InitScored ==
    /\ \E n \in 0..MaxPersons :
         \E D \in {X \in SubsetsUpTo(Deviations(n), MaxDeviations) : Functional(X)} :
            /\ rows = DefaultRows(n)
            /\ similarity = Table(D, "similarity", n, 0)
            /\ preferred = Table(D, "preferred", n, 1)
            /\ pairable = Table(D, "pairable", n, 1)
    /\ Unbuilt

\* every choice of days over a roster in which every pair is pairable and
\* scores the same, so that every pairing of the roster is an optimal one
InitReport ==
    /\ \E n \in 0..MaxReportPersons :
         /\ rows \in [1..n -> [day_choice : Days]]
         /\ similarity = DefaultSimilarity(n)
         /\ preferred = DefaultPreferred(n)
         /\ pairable = DefaultPairable(n)
    /\ Unbuilt

\* ----------------------------------------------------------------- actions
\* MatchMaker.__init__: _initialise_participants, _create_match_variables,
\* _initialse_problem
MatchMakerInit ==
    /\ pc = "new"
    /\ \E ps \in {[k \in 1..Len(rows) |-> PersonBuild(k - 1, rows[k])]} :
         \E pms \in {PossibleMatches(Len(ps))} :
           /\ persons' = ps
           /\ possible_matches' = pms
           /\ variables' = LpVariableDicts(pms)
           /\ prob' = initialse_problem(pms, ps)
    /\ pc' = "built"
    /\ UNCHANGED <<rows, similarity, preferred, pairable, status, exception,
                   scores, num_matches, not_matched, day_dict, unmatched>>

\* MatchMaker.solve
Solve ==
    /\ pc = "built"
    /\ \E out \in SolverOutcomes(prob, variables) :
       \E vs \in {AssignVarsVals(variables, out.sel)} :
       \E matches \in {get_matches(possible_matches, vs, persons)} :
       \E true_matches \in {get_true_possible_matches(possible_matches, vs)} :
             /\ variables' = vs
             /\ status' = out.status
             /\ IF Len(persons) = 0
                THEN \* 2*value(objective) / len(persons)
                     /\ exception' = "ZeroDivisionError"
                     /\ pc' = "raised"
                     /\ UNCHANGED <<scores, num_matches, not_matched, day_dict, unmatched>>
                ELSE /\ scores' = Scores(matches)
                     /\ num_matches' = NumMatches(matches)
                     /\ day_dict' = DayDict(true_matches, persons)
                     /\ unmatched' = Unmatched(true_matches)
                     /\ not_matched' = Len(persons) - NumMatches(matches)
                     /\ pc' = "solved"
                     /\ UNCHANGED exception
    /\ UNCHANGED <<rows, similarity, preferred, pairable, persons, possible_matches, prob>>

Next == MatchMakerInit \/ Solve

Spec == Init /\ [][Next]_vars

SpecScored == InitScored /\ [][Next]_vars

SpecReport == InitReport /\ [][Next]_vars

\* ------------------------------------------------------------ properties
N == Len(persons)

Built == pc \in {"built", "solved", "raised"}

SolvedRun == pc = "solved" /\ status = "Optimal"

\* the candidate pairs whose variable the solver set to 1
Selected == Range(get_true_possible_matches(possible_matches, variables))

\* the candidate pairs an assignment selects, read back through the tracker
SelectedBy(sel) ==
    Range(get_true_possible_matches(possible_matches, AssignVarsVals(variables, sel)))

\* every participant index is a member of exactly one pair of S
CoversOnce(S) ==
    \A idx \in 0..(N - 1) : Cardinality({pm \in S : TupleContains(pm, idx)}) = 1

\* C1: in every solved run, and under every 0/1 assignment that satisfies the
\* constraints built by _initialse_problem, get_true_possible_matches covers
\* each participant index exactly once.
C1_Coverage ==
    /\ SolvedRun => CoversOnce(Selected)
    /\ pc = "built" =>
         \A sel \in FeasibleAssignments(prob, variables) : CoversOnce(SelectedBy(sel))

C1_Witness ==
    /\ SolvedRun
    /\ N = 3
    /\ \E pm \in Selected : pm[1] # pm[2]
    /\ \E pm \in Selected : pm[1] = pm[2]
    /\ \E pm \in DOMAIN pairable : pairable[pm] = 0

\* C2: a pair with pairable = 0 is never selected, whatever its similarity and
\* preference are: its variable is 0 in every solved run and under every
\* assignment that satisfies the constraints.
C2_Ineligible ==
    /\ SolvedRun =>
         /\ \A pm \in DOMAIN variables : pairable[pm] = 0 => variables[pm].varValue = <<0>>
         /\ \A pm \in Selected : pairable[pm] = 1
    /\ pc = "built" =>
         \A sel \in FeasibleAssignments(prob, variables) :
            \A pm \in DOMAIN variables : pairable[pm] = 0 => pm \notin sel

C2_Witness ==
    /\ SolvedRun
    /\ N >= 2
    /\ \E pm \in DOMAIN pairable :
         /\ pm[1] # pm[2]
         /\ pairable[pm] = 0
         /\ similarity[pm] = MaxSim
         /\ \A other \in DOMAIN similarity : other # pm => similarity[other] = 0

\* C3: possible_matches is exactly {(i,j) : 0 <= i < j < N} with the N
\* self-pairs: N(N+1)/2 entries, no duplicate, no 1-element tuple, no pair
\* with i > j, and one decision variable per entry.
C3_CandidatePairs ==
    Built =>
        /\ Range(possible_matches) =
             {pm \in (0..(N - 1)) \X (0..(N - 1)) : pm[1] < pm[2]}
             \cup {<<i, i>> : i \in 0..(N - 1)}
        /\ 2 * Len(possible_matches) = N * (N + 1)
        /\ Cardinality(Range(possible_matches)) = Len(possible_matches)
        /\ \A k \in 1..Len(possible_matches) :
             Len(possible_matches[k]) = 2 /\ possible_matches[k][1] <= possible_matches[k][2]
        /\ DOMAIN variables = Range(possible_matches)

C3_Witness ==
    /\ pc = "built"
    /\ N = 3
    /\ Len(possible_matches) = 6

\* C9: get_variables_for_person(idx) lists exactly the N candidate pairs that
\* contain idx, each once (the self-pair once, not twice), and the coverage
\* constraint of idx sums exactly these variables.
C9_VariablesTouching ==
    Built =>
        \A idx \in 0..(N - 1) :
            LET t == get_variables_for_person(possible_matches, idx)
            IN  /\ Len(t) = N
                /\ Cardinality(Range(t)) = N
                /\ Range(t) = {<<i, idx>> : i \in 0..idx} \cup {<<idx, j>> : j \in idx..(N - 1)}
                /\ Cardinality({k \in 1..Len(t) : t[k] = <<idx, idx>>}) = 1
                /\ prob.constraints[idx + 1] = [sense |-> "==", terms |-> t, rhs |-> 1]

C9_Witness ==
    /\ pc = "built"
    /\ N = 3
    /\ Range(get_variables_for_person(possible_matches, 1)) = {<<0, 1>>, <<1, 1>>, <<1, 2>>}

\* C10: when every self-pair is pairable the model is feasible whatever the
\* real pairs' pairable values are: selecting every self-pair and no real pair
\* satisfies every constraint, the solver reports Optimal, and the optimum is
\* at least the sum of the self-pair scores.
AllSelf == {<<i, i>> : i \in 0..(N - 1)}

C10_SelfPairsFeasible ==
    (Built /\ N >= 1 /\ \A i \in 0..(N - 1) : pairable[<<i, i>>] = 1) =>
        /\ \A k \in 1..Len(prob.constraints) : Holds(prob.constraints[k], AllSelf)
        /\ pc = "solved" =>
             /\ status = "Optimal"
             /\ ObjectiveValue(prob, Selected) >= ObjectiveValue(prob, AllSelf)

C10_Witness ==
    /\ SolvedRun
    /\ N = 3
    /\ \A pm \in DOMAIN pairable : pairable[pm] = (IF pm[1] = pm[2] THEN 1 ELSE 0)
    /\ Selected = AllSelf

\* score(i,j) = similarity(i,j) - 0.1 * (1 - preferred(i,j)), in tenths
PairScore(pm) == ScoreScale * similarity[pm] - (1 - preferred[pm])

RECURSIVE PartitionValue(_)
PartitionValue(m) ==
    IF m = {} THEN 0
    ELSE LET pm == CHOOSE x \in m : TRUE
         IN  PairScore(pm) + PartitionValue(m \ {pm})

\* brute force: the partitions of the indices S into pairable real pairs and
\* pairable self-pairs, built by placing the least index first
RECURSIVE Partitions(_)
Partitions(S) ==
    IF S = {} THEN {{}}
    ELSE LET i == CHOOSE x \in S : \A y \in S : x <= y
         IN  (IF pairable[<<i, i>>] = 1
              THEN {{<<i, i>>} \cup m : m \in Partitions(S \ {i})}
              ELSE {})
             \cup UNION {{{<<i, j>>} \cup m : m \in Partitions(S \ {i, j})} :
                           j \in {y \in S : y > i /\ pairable[<<i, y>>] = 1}}

\* C4: the objective value of an optimal solved run is the maximum, over the
\* brute-force partitions of the roster into pairable pairs and self-pairs, of
\* the summed scores, and the selected pairing is a partition attaining it.
C4_BruteForceOptimum ==
    SolvedRun =>
        LET partitions == Partitions(0..(N - 1))
            objective == ObjectiveValue(prob, Selected)
        IN  /\ Selected \in partitions
            /\ objective = PartitionValue(Selected)
            /\ \A m \in partitions : PartitionValue(m) <= objective

C4_Witness ==
    /\ SolvedRun
    /\ N = 3
    /\ similarity[<<1, 2>>] = MaxSim
    /\ preferred[<<0, 0>>] = 0
    /\ Selected = {<<0, 0>>, <<1, 2>>}
    /\ ObjectiveValue(prob, Selected) = ScoreScale * MaxSim - 1
    /\ \E m \in Partitions(0..(N - 1)) : PartitionValue(m) < ObjectiveValue(prob, Selected)

HasPartner(i) ==
    \E j \in 0..(N - 1) :
        j # i /\ pairable[<<IF i < j THEN i ELSE j, IF i < j THEN j ELSE i>>] = 1

C6_ExtractionOnlyWhenOptimal ==
    status # "Optimal" =>
        /\ pc # "solved"
        /\ scores = <<>> /\ unmatched = <<>> /\ DOMAIN day_dict = {}

RECURSIVE BucketTotal(_, _)
BucketTotal(dd, keys) ==
    IF keys = {} THEN 0
    ELSE LET d == CHOOSE x \in keys : TRUE
         IN  Len(dd[d]) + BucketTotal(dd, keys \ {d})

\* C7: after a solved run matchedCount + unmatchedCount = N, the printed
\* number of people not matched is the length of the Unmatched list, and the
\* per-day buckets hold matchedCount / 2 pairs in total.
C7_ReportConsistent ==
    SolvedRun =>
        /\ num_matches + Len(unmatched) = N
        /\ not_matched = Len(unmatched)
        /\ 2 * BucketTotal(day_dict, DOMAIN day_dict) = num_matches

C7_Witness ==
    /\ SolvedRun
    /\ N = 4
    /\ num_matches = 4
    /\ unmatched = <<>>
    /\ DOMAIN day_dict = {"Friday", "Saturday"}
    /\ persons[1].day_choice = EITHER

\* C8: a roster with fewer than 2 participants is rejected with an
\* invalid-roster error before any candidate pair, variable, objective or
\* constraint is created, and is never solved.
C8_SmallRosterRejected ==
    (Len(rows) < 2 /\ pc # "new") =>
        /\ exception = "InvalidRosterError"
        /\ possible_matches = <<>>
        /\ DOMAIN variables = {}
        /\ prob.constraints = <<>>

\* the branching enumeration finds exactly the assignments that satisfy every
\* constraint
SolverSound ==
    pc = "built" =>
        FeasibleAssignments(prob, variables) =
            {sel \in SUBSET (DOMAIN variables) :
                \A k \in 1..Len(prob.constraints) : Holds(prob.constraints[k], sel)}

TypeOK ==
    /\ pc \in {"new", "built", "solved", "raised"}
    /\ status \in {"Not Solved", "Optimal", "Infeasible"}
    /\ exception \in {"none", "ZeroDivisionError"}
    /\ pc = "raised" <=> exception = "ZeroDivisionError"

====
